---- MODULE Spec2Model ----
(***************************************************************************)
(* A model of src/libs/PolicyUtils.ts (the policy selector library) and of *)
(* the CustomStatusBar component.                                          *)
(*                                                                         *)
(* JavaScript values are represented as follows.                           *)
(*   - a value that may be null/undefined is a set: {} is null/undefined   *)
(*     and {v} is the value v (`?.` and `??` treat null and undefined      *)
(*     alike, so one representation serves both);                          *)
(*   - an object used as a mapping is a function, Object.keys is DOMAIN;   *)
(*   - an object whose keys are account IDs is a function on integers,     *)
(*     which Object.keys enumerates in ascending order;                    *)
(*   - an object with string keys in insertion order is a sequence of      *)
(*     <<key, value>> pairs with distinct keys;                            *)
(*   - the outcome of a call is [threw, value]: threw is TRUE when the     *)
(*     call ends in a TypeError.                                           *)
(***************************************************************************)
EXTENDS Integers, Sequences, FiniteSets, TLC

\* fn, args, result: the library function being called ("none" between
\*   calls), its arguments and its outcome.
\* rootMounted, nested: the mounted CustomStatusBar instances (the root one,
\*   and the identities of the nested ones).
\* isRootStatusBarDisabled: the flag of CustomStatusBarContext.
\* rootOutput: what the root instance last rendered.
\* currentRoute: navigationRef.getCurrentRoute().
\* backgroundColor, barStyle: what StatusBar was last set to.
\* lastStateSetters: the instances whose listener set StatusBar in the last
\*   'state' event.
VARIABLES fn, args, result,
          rootMounted, nested, isRootStatusBarDisabled, rootOutput,
          currentRoute, backgroundColor, barStyle, lastStateSetters

libVars == <<fn, args, result>>
barVars == <<rootMounted, nested, isRootStatusBarDisabled, rootOutput,
             currentRoute, backgroundColor, barStyle, lastStateSetters>>
vars == <<fn, args, result,
          rootMounted, nested, isRootStatusBarDisabled, rootOutput,
          currentRoute, backgroundColor, barStyle, lastStateSetters>>

(***************************************************************************)
(* Bounds of the model.                                                    *)
(***************************************************************************)
MaxPolicies == 2
MaxAccountID == 2
MaxBrickAccountID == 1
MaxTags == 2
MaxNested == 2

(***************************************************************************)
(* null / undefined, `?.` and `??`.                                        *)
(***************************************************************************)
Null == {}
Some(v) == {v}
Get(o) == CHOOSE v \in o : TRUE
EmptyObj == [k \in {} |-> ""]
OrEmpty(o) == IF o = Null THEN EmptyObj ELSE Get(o)
Chain(o, f) == IF o = Null THEN Null ELSE Get(o)[f]
Lookup(obj, k) == IF k \in DOMAIN obj THEN obj[k] ELSE Null

ObjectKeys(obj) == DOMAIN obj
\* Object.keys of a string primitive: the indices of its characters.
ObjectKeysOfString(s) == 0 .. (Len(s) - 1)

Returned(v) == [threw |-> FALSE, value |-> v]
Threw == [threw |-> TRUE, value |-> "TypeError"]

(***************************************************************************)
(* Constants of CONST and ONYXKEYS used by the library.                    *)
(***************************************************************************)
DELETE == "delete"
ADMIN == "admin"
ERROR == "error"
POLICY_MEMBERS == "policyMembers_"
EXPENSIFY_EMAILS == <<"concierge@expensify.com", "chronos@expensify.com">>

(***************************************************************************)
(* The records the library reads.                                          *)
(***************************************************************************)
ErrorMaps == {EmptyObj, [k \in {"e1"} |-> "Unable to do X"]}
OptErrorMaps == {Null} \cup {Some(e) : e \in ErrorMaps}
PendingActions == {Null, Some("add"), Some(DELETE)}
Roles == {ADMIN, "user"}
PolicyIDs == {"1", "2"}
FieldNames == {"avatar", "generalSettings"}
ErrorFieldMaps == UNION {[names -> OptErrorMaps] : names \in SUBSET FieldNames}
OptErrorFields == {Null} \cup {Some(f) : f \in ErrorFieldMaps}
OptCustomUnits == {Null} \cup {Some([errors |-> e]) : e \in OptErrorMaps}

PolicyRecords(ids, flags, rooms, roles, pendings, errs, fields, units) ==
    [id : ids, isPolicyExpenseChatEnabled : flags, areChatRoomsEnabled : rooms,
     role : roles, pendingAction : pendings, errors : errs,
     errorFields : fields, customUnits : units]

OptOf(S) == {Null} \cup {Some(x) : x \in S}

\* Every policy record of the model, and null.
Policies ==
    OptOf(PolicyRecords(PolicyIDs, BOOLEAN, {FALSE}, Roles, PendingActions,
                        OptErrorMaps, OptErrorFields, OptCustomUnits))
\* The policies getActivePolicies filters: the fields it reads vary.
ListedPolicies ==
    OptOf(PolicyRecords(PolicyIDs, BOOLEAN, BOOLEAN, {ADMIN}, PendingActions,
                        {Null}, {Null}, {Null}))
\* The policies getPolicyBrickRoadIndicatorStatus is called with.
BrickPolicies ==
    OptOf(PolicyRecords(PolicyIDs, {TRUE}, {FALSE}, {ADMIN}, {Null},
                        {Null}, OptErrorFields, OptCustomUnits))

SeqsUpTo(S, n) == UNION {[1..k -> S] : k \in 0..n}

(***************************************************************************)
(* getActivePolicies                                                       *)
(***************************************************************************)
IsActivePolicy(policy) ==
    /\ policy # Null
    /\ (Get(policy).isPolicyExpenseChatEnabled \/ Get(policy).areChatRoomsEnabled)
    /\ Get(policy).pendingAction # Some(DELETE)

\* A filter that forgets the pending deletion.
getActivePoliciesKeepingDeleted(policies) ==
    LET Enabled(policy) ==
            /\ policy # Null
            /\ (Get(policy).isPolicyExpenseChatEnabled \/ Get(policy).areChatRoomsEnabled)
    IN  SelectSeq(IF policies = Null THEN <<>> ELSE Get(policies), Enabled)

getActivePolicies(policies) ==
    SelectSeq(IF policies = Null THEN <<>> ELSE Get(policies), IsActivePolicy)

(***************************************************************************)
(* hasPolicyErrorFields, hasPolicyError, hasCustomUnitsError               *)
(***************************************************************************)
hasPolicyErrorFields(policy) ==
    \E fieldErrors \in ObjectKeys(OrEmpty(Chain(policy, "errorFields"))) :
        Cardinality(ObjectKeysOfString(fieldErrors)) > 0

\* A check that looks at the error fields only.
hasPolicyErrorFieldsOnly(policy) == hasPolicyErrorFields(policy)

hasPolicyError(policy) ==
    IF Cardinality(ObjectKeys(OrEmpty(Chain(policy, "errors")))) > 0
    THEN TRUE
    ELSE hasPolicyErrorFields(policy)

hasCustomUnitsError(policy) ==
    Cardinality(ObjectKeys(OrEmpty(Chain(Chain(policy, "customUnits"), "errors")))) > 0

(***************************************************************************)
(* shouldShowPolicy: the value of the && chain, which is its first falsy   *)
(* operand or its last operand.                                            *)
(***************************************************************************)
\* A check that hides a policy pending deletion when offline too.
shouldShowPolicyIgnoringOffline(policy, isOffline) ==
    IF policy = Null THEN "null"
    ELSE IF ~Get(policy).isPolicyExpenseChatEnabled THEN "false"
    ELSE IF ~(Get(policy).role = ADMIN) THEN "false"
    ELSE IF \/ Get(policy).pendingAction # Some(DELETE)
            \/ Cardinality(ObjectKeys(OrEmpty(Get(policy).errors))) > 0
         THEN "true"
         ELSE "false"

shouldShowPolicy(policy, isOffline) ==
    IF policy = Null THEN "null"
    ELSE IF ~Get(policy).isPolicyExpenseChatEnabled THEN "false"
    ELSE IF ~(Get(policy).role = ADMIN) THEN "false"
    ELSE IF \/ isOffline
            \/ Get(policy).pendingAction # Some(DELETE)
            \/ Cardinality(ObjectKeys(OrEmpty(Get(policy).errors))) > 0
         THEN "true"
         ELSE "false"

(***************************************************************************)
(* hasPolicyMemberError, getPolicyBrickRoadIndicatorStatus                 *)
(***************************************************************************)
BrickMembers == [errors : OptErrorMaps, pendingAction : {Null}]
Members == [errors : OptErrorMaps, pendingAction : {Null, Some(DELETE)}]
PartialMaps(keys, values) == UNION {[ks -> values] : ks \in SUBSET keys}
BrickMemberLists == OptOf(PartialMaps(1..MaxBrickAccountID, OptOf(BrickMembers)))
MemberLists == OptOf(PartialMaps(1..MaxAccountID, OptOf(Members)))
CollectionKeys == {POLICY_MEMBERS \o id : id \in PolicyIDs}
Collections == OptOf(PartialMaps(CollectionKeys, BrickMemberLists))

hasPolicyMemberError(policyMembers) ==
    \E accountID \in ObjectKeys(OrEmpty(policyMembers)) :
        LET member == OrEmpty(policyMembers)[accountID]
        IN  Cardinality(ObjectKeys(OrEmpty(Chain(member, "errors")))) > 0

\* `collection?.[key]` does not evaluate the key, and so does not read
\* policy.id, when the collection is null; otherwise policy.id is read and
\* a null policy ends the call in a TypeError.
getPolicyBrickRoadIndicatorStatus(policy, policyMembersCollection) ==
    IF policyMembersCollection # Null /\ policy = Null THEN Threw
    ELSE LET policyMembers ==
                 IF policyMembersCollection = Null THEN Some(EmptyObj)
                 ELSE LET found == Lookup(Get(policyMembersCollection),
                                          POLICY_MEMBERS \o Get(policy).id)
                      IN  IF found = Null THEN Some(EmptyObj) ELSE found
         IN  IF \/ hasPolicyMemberError(policyMembers)
                \/ hasCustomUnitsError(policy)
                \/ hasPolicyErrorFields(policy)
             THEN Returned(ERROR)
             ELSE Returned("")

(***************************************************************************)
(* getMemberAccountIDsForWorkspace, getIneligibleInvitees                  *)
(***************************************************************************)
Logins == {"", "a@mail.com", "b@mail.com"}
PersonalDetailsLists == OptOf(PartialMaps(1..MaxAccountID, OptOf([login : Logins])))

\* Object.keys of an object keyed by account IDs: ascending.
RECURSIVE Ascending(_)
Ascending(S) ==
    IF S = {} THEN <<>>
    ELSE LET least == CHOOSE x \in S : \A y \in S : x <= y
         IN  <<least>> \o Ascending(S \ {least})

Assign(obj, k, v) == [x \in DOMAIN obj \cup {k} |-> IF x = k THEN v ELSE obj[x]]

\* A mapping that keeps the members with errors.
RECURSIVE MemberAccountIDsWithErrorsFrom(_, _, _, _)
MemberAccountIDsWithErrorsFrom(keys, policyMembers, personalDetails, memberEmailsToAccountIDs) ==
    IF keys = <<>> THEN Returned(memberEmailsToAccountIDs)
    ELSE LET accountID == Head(keys)
         IN  IF personalDetails = Null THEN Threw
             ELSE LET personalDetail == Lookup(Get(personalDetails), accountID)
                  IN  IF personalDetail = Null \/ Get(personalDetail).login = ""
                      THEN MemberAccountIDsWithErrorsFrom(Tail(keys), policyMembers,
                               personalDetails, memberEmailsToAccountIDs)
                      ELSE MemberAccountIDsWithErrorsFrom(Tail(keys), policyMembers,
                               personalDetails,
                               Assign(memberEmailsToAccountIDs,
                                      Get(personalDetail).login, accountID))

RECURSIVE MemberAccountIDsFrom(_, _, _, _)
MemberAccountIDsFrom(keys, policyMembers, personalDetails, memberEmailsToAccountIDs) ==
    IF keys = <<>> THEN Returned(memberEmailsToAccountIDs)
    ELSE LET accountID == Head(keys)
             member == Lookup(OrEmpty(policyMembers), accountID)
         IN  IF Cardinality(ObjectKeys(OrEmpty(Chain(member, "errors")))) > 0
             THEN MemberAccountIDsFrom(Tail(keys), policyMembers, personalDetails,
                                       memberEmailsToAccountIDs)
             ELSE IF personalDetails = Null THEN Threw
             ELSE LET personalDetail == Lookup(Get(personalDetails), accountID)
                  IN  IF personalDetail = Null \/ Get(personalDetail).login = ""
                      THEN MemberAccountIDsFrom(Tail(keys), policyMembers, personalDetails,
                                                memberEmailsToAccountIDs)
                      ELSE MemberAccountIDsFrom(Tail(keys), policyMembers, personalDetails,
                               Assign(memberEmailsToAccountIDs,
                                      Get(personalDetail).login, accountID))

getMemberAccountIDsForWorkspace(policyMembers, personalDetails) ==
    MemberAccountIDsFrom(Ascending(ObjectKeys(OrEmpty(policyMembers))),
                         policyMembers, personalDetails, EmptyObj)

\* A list that also excludes the members pending deletion.
RECURSIVE IneligibleInviteesWithDeletedFrom(_, _, _, _)
IneligibleInviteesWithDeletedFrom(keys, policyMembers, personalDetails, memberEmailsToExclude) ==
    IF keys = <<>> THEN Returned(memberEmailsToExclude)
    ELSE LET accountID == Head(keys)
             policyMember == Lookup(OrEmpty(policyMembers), accountID)
         IN  IF policyMember = Null THEN Threw
             ELSE IF Cardinality(ObjectKeys(OrEmpty(Get(policyMember).errors))) > 0
             THEN IneligibleInviteesWithDeletedFrom(Tail(keys), policyMembers,
                      personalDetails, memberEmailsToExclude)
             ELSE LET personalDetail == Lookup(OrEmpty(personalDetails), accountID)
                  IN  IF personalDetail = Null \/ Get(personalDetail).login = ""
                      THEN IneligibleInviteesWithDeletedFrom(Tail(keys), policyMembers,
                               personalDetails, memberEmailsToExclude)
                      ELSE IneligibleInviteesWithDeletedFrom(Tail(keys), policyMembers,
                               personalDetails,
                               Append(memberEmailsToExclude, Get(personalDetail).login))

RECURSIVE IneligibleInviteesFrom(_, _, _, _)
IneligibleInviteesFrom(keys, policyMembers, personalDetails, memberEmailsToExclude) ==
    IF keys = <<>> THEN Returned(memberEmailsToExclude)
    ELSE LET accountID == Head(keys)
             policyMember == Lookup(OrEmpty(policyMembers), accountID)
         IN  IF policyMember = Null THEN Threw
             ELSE IF \/ Get(policyMember).pendingAction = Some(DELETE)
                     \/ Cardinality(ObjectKeys(OrEmpty(Get(policyMember).errors))) > 0
             THEN IneligibleInviteesFrom(Tail(keys), policyMembers, personalDetails,
                                         memberEmailsToExclude)
             ELSE LET personalDetail == Lookup(OrEmpty(personalDetails), accountID)
                  IN  IF personalDetail = Null \/ Get(personalDetail).login = ""
                      THEN IneligibleInviteesFrom(Tail(keys), policyMembers, personalDetails,
                                                  memberEmailsToExclude)
                      ELSE IneligibleInviteesFrom(Tail(keys), policyMembers, personalDetails,
                               Append(memberEmailsToExclude, Get(personalDetail).login))

getIneligibleInvitees(policyMembers, personalDetails) ==
    IneligibleInviteesFrom(Ascending(ObjectKeys(OrEmpty(policyMembers))),
                           policyMembers, personalDetails, EXPENSIFY_EMAILS)

(***************************************************************************)
(* getTag                                                                  *)
(***************************************************************************)
TagKeys == {"Tag", "Department", "Region"}
PolicyTags == {[name |-> "Meals"], [name |-> "Travel"]}
\* Objects with string keys, in insertion order.
TagObjects ==
    {o \in SeqsUpTo(TagKeys \X PolicyTags, MaxTags) :
        \A i, j \in 1..Len(o) : o[i][1] = o[j][1] => i = j}
OptTagKeys == OptOf(TagKeys)

OrderedKeys(o) == [i \in 1..Len(o) |-> o[i][1]]
OrderedLookup(o, k) ==
    IF \E i \in 1..Len(o) : o[i][1] = k
    THEN Some(o[CHOOSE i \in 1..Len(o) : o[i][1] = k][2])
    ELSE Null

\* A lookup that falls back to the first tag when the key is not found.
getTagFallingBack(policyTags, tagKey) ==
    LET tags == IF policyTags = Null THEN <<>> ELSE Get(policyTags)
    IN  IF Len(OrderedKeys(tags)) = 0 THEN EmptyObj
        ELSE LET policyTagKey ==
                     IF tagKey = Null \/ OrderedLookup(tags, Get(tagKey)) = Null
                     THEN OrderedKeys(tags)[1]
                     ELSE Get(tagKey)
             IN  OrEmpty(OrderedLookup(tags, policyTagKey))

getTag(policyTags, tagKey) ==
    LET tags == IF policyTags = Null THEN <<>> ELSE Get(policyTags)
    IN  IF Len(OrderedKeys(tags)) = 0 THEN EmptyObj
        ELSE LET policyTagKey == IF tagKey = Null THEN OrderedKeys(tags)[1]
                                 ELSE Get(tagKey)
             IN  OrEmpty(OrderedLookup(tags, policyTagKey))

(***************************************************************************)
(* Calls of the single-policy functions.                                   *)
(***************************************************************************)
\* The instances whose 'state' listener set the status bar in the last event.
NoSetters == [root |-> FALSE, nested |-> {}]

BarInit ==
    /\ rootMounted = FALSE
    /\ nested = {}
    /\ isRootStatusBarDisabled = FALSE
    /\ rootOutput = "unmounted"
    /\ currentRoute = Null
    /\ backgroundColor = "unset"
    /\ barStyle = "unset"
    /\ lastStateSetters = NoSetters

LibInit ==
    /\ fn = "none"
    /\ args = <<>>
    /\ result = Returned(Null)

Init == LibInit /\ BarInit

\* The library keeps no state: a call is made when no call is in progress,
\* and its outcome is handed back before the next one.
CallShouldShowPolicy ==
    /\ fn = "none"
    /\ \E policy \in Policies, isOffline \in BOOLEAN :
          /\ fn' = "shouldShowPolicy"
          /\ args' = <<policy, isOffline>>
          /\ result' = Returned(shouldShowPolicy(policy, isOffline))
    /\ UNCHANGED barVars

CallHasPolicyErrorFields ==
    /\ fn = "none"
    /\ \E policy \in Policies :
          /\ fn' = "hasPolicyErrorFields"
          /\ args' = <<policy>>
          /\ result' = Returned(hasPolicyErrorFields(policy))
    /\ UNCHANGED barVars

CallHasPolicyError ==
    /\ fn = "none"
    /\ \E policy \in Policies :
          /\ fn' = "hasPolicyError"
          /\ args' = <<policy>>
          /\ result' = Returned(hasPolicyError(policy))
    /\ UNCHANGED barVars

CallHasCustomUnitsError ==
    /\ fn = "none"
    /\ \E policy \in Policies :
          /\ fn' = "hasCustomUnitsError"
          /\ args' = <<policy>>
          /\ result' = Returned(hasCustomUnitsError(policy))
    /\ UNCHANGED barVars

CallGetActivePolicies ==
    /\ fn = "none"
    /\ \E policies \in OptOf(SeqsUpTo(ListedPolicies, MaxPolicies)) :
          /\ fn' = "getActivePolicies"
          /\ args' = <<policies>>
          /\ result' = Returned(getActivePolicies(policies))
    /\ UNCHANGED barVars

Return ==
    /\ fn # "none"
    /\ fn' = "none"
    /\ args' = <<>>
    /\ result' = Returned(Null)
    /\ UNCHANGED barVars

Next ==
    \/ CallShouldShowPolicy
    \/ CallHasPolicyErrorFields
    \/ CallHasPolicyError
    \/ CallHasCustomUnitsError
    \/ CallGetActivePolicies
    \/ Return

Spec == Init /\ [][Next]_vars

(***************************************************************************)
(* Calls of the functions that read the member collections.                *)
(***************************************************************************)
CallHasPolicyMemberError ==
    /\ fn = "none"
    /\ \E policyMembers \in BrickMemberLists :
          /\ fn' = "hasPolicyMemberError"
          /\ args' = <<policyMembers>>
          /\ result' = Returned(hasPolicyMemberError(policyMembers))
    /\ UNCHANGED barVars

CallGetPolicyBrickRoadIndicatorStatus ==
    /\ fn = "none"
    /\ \E policy \in BrickPolicies, policyMembersCollection \in Collections :
          /\ fn' = "getPolicyBrickRoadIndicatorStatus"
          /\ args' = <<policy, policyMembersCollection>>
          /\ result' = getPolicyBrickRoadIndicatorStatus(policy, policyMembersCollection)
    /\ UNCHANGED barVars

NextBrick ==
    \/ CallHasPolicyMemberError
    \/ CallGetPolicyBrickRoadIndicatorStatus
    \/ Return

SpecBrick == Init /\ [][NextBrick]_vars

CallGetMemberAccountIDsForWorkspace ==
    /\ fn = "none"
    /\ \E policyMembers \in MemberLists, personalDetails \in PersonalDetailsLists :
          /\ fn' = "getMemberAccountIDsForWorkspace"
          /\ args' = <<policyMembers, personalDetails>>
          /\ result' = getMemberAccountIDsForWorkspace(policyMembers, personalDetails)
    /\ UNCHANGED barVars

CallGetIneligibleInvitees ==
    /\ fn = "none"
    /\ \E policyMembers \in MemberLists, personalDetails \in PersonalDetailsLists :
          /\ fn' = "getIneligibleInvitees"
          /\ args' = <<policyMembers, personalDetails>>
          /\ result' = getIneligibleInvitees(policyMembers, personalDetails)
    /\ UNCHANGED barVars

NextMembers ==
    \/ CallGetMemberAccountIDsForWorkspace
    \/ CallGetIneligibleInvitees
    \/ Return

SpecMembers == Init /\ [][NextMembers]_vars

CallGetTag ==
    /\ fn = "none"
    /\ \E policyTags \in OptOf(TagObjects), tagKey \in OptTagKeys :
          /\ fn' = "getTag"
          /\ args' = <<policyTags, tagKey>>
          /\ result' = Returned(getTag(policyTags, tagKey))
    /\ UNCHANGED barVars

NextTags ==
    \/ CallGetTag
    \/ Return

SpecTags == Init /\ [][NextTags]_vars

(***************************************************************************)
(* Properties of the policy library.                                       *)
(***************************************************************************)
\* An error mapping that is present and has at least one entry.
HasEntries(errors) == errors # Null /\ DOMAIN Get(errors) # {}
Called(name) == fn = name
Value == result.value

\* C1: shouldShowPolicy is true exactly when the policy is expense-chat
\* enabled, the role is admin and (offline, or not pending DELETE, or the
\* errors mapping is non-empty); an admin, enabled, pending-DELETE policy
\* without errors is shown offline and hidden online.
ShownWhen(policy, isOffline) ==
    /\ policy # Null
    /\ Get(policy).isPolicyExpenseChatEnabled
    /\ Get(policy).role = ADMIN
    /\ \/ isOffline
       \/ Get(policy).pendingAction # Some(DELETE)
       \/ HasEntries(Get(policy).errors)
PendingDeleteAdminNoErrors(policy) ==
    /\ policy # Null
    /\ Get(policy).isPolicyExpenseChatEnabled
    /\ Get(policy).role = ADMIN
    /\ Get(policy).pendingAction = Some(DELETE)
    /\ ~HasEntries(Get(policy).errors)
\* C1: shouldShowPolicy returns true exactly when ShownWhen holds of its arguments.
C1_ShouldShowPolicy ==
    Called("shouldShowPolicy") =>
        /\ (Value = "true") <=> ShownWhen(args[1], args[2])
        /\ PendingDeleteAdminNoErrors(args[1]) => ((Value = "true") <=> args[2])
C1_Witness ==
    /\ Called("shouldShowPolicy")
    /\ PendingDeleteAdminNoErrors(args[1])
    /\ args[2]
    /\ Value = "true"

\* C2: hasPolicyErrorFields is true if and only if some field name of
\* policy.errorFields maps to a non-empty error mapping.
SomeFieldHasErrors(policy) ==
    /\ policy # Null
    /\ Get(policy).errorFields # Null
    /\ \E field \in DOMAIN Get(Get(policy).errorFields) :
           HasEntries(Get(Get(policy).errorFields)[field])
\* C2: hasPolicyErrorFields is true iff some field of errorFields has a non-empty error mapping.
C2_HasPolicyErrorFields ==
    Called("hasPolicyErrorFields") => (Value <=> SomeFieldHasErrors(args[1]))

\* C3: getPolicyBrickRoadIndicatorStatus returns ERROR exactly when a member
\* stored under "policyMembers_" + policy.id has a non-empty errors mapping,
\* or policy.customUnits.errors is non-empty, or some field of
\* policy.errorFields has a non-empty error mapping; otherwise it returns
\* the empty string.
OwnMemberHasErrors(policy, collection) ==
    /\ policy # Null
    /\ collection # Null
    /\ \E key \in DOMAIN Get(collection) :
          /\ key = "policyMembers_" \o Get(policy).id
          /\ Get(collection)[key] # Null
          /\ \E accountID \in DOMAIN Get(Get(collection)[key]) :
                LET member == Get(Get(collection)[key])[accountID]
                IN  member # Null /\ HasEntries(Get(member).errors)
CustomUnitsHaveErrors(policy) ==
    /\ policy # Null
    /\ Get(policy).customUnits # Null
    /\ HasEntries(Get(Get(policy).customUnits).errors)
\* C3: the status is ERROR iff an own member, the custom units or an error field has errors, else the empty string.
C3_BrickRoadStatus ==
    (Called("getPolicyBrickRoadIndicatorStatus") /\ ~result.threw) =>
        Value = IF \/ OwnMemberHasErrors(args[1], args[2])
                   \/ CustomUnitsHaveErrors(args[1])
                   \/ SomeFieldHasErrors(args[1])
                THEN "error"
                ELSE ""

\* C4: the mapping getMemberAccountIDsForWorkspace returns never maps to a
\* member whose errors mapping is non-empty; each entry login -> accountID
\* comes from a member without errors whose personalDetails login is that
\* login.
MemberHasErrors(policyMembers, accountID) ==
    /\ policyMembers # Null
    /\ accountID \in DOMAIN Get(policyMembers)
    /\ Get(policyMembers)[accountID] # Null
    /\ HasEntries(Get(Get(policyMembers)[accountID]).errors)
LoginOf(personalDetails, accountID) ==
    IF /\ personalDetails # Null
       /\ accountID \in DOMAIN Get(personalDetails)
       /\ Get(personalDetails)[accountID] # Null
    THEN Get(Get(personalDetails)[accountID]).login
    ELSE ""
\* C4: every entry of the returned mapping comes from a member without errors whose login it is.
C4_MemberAccountIDs ==
    (Called("getMemberAccountIDsForWorkspace") /\ ~result.threw) =>
        \A login \in DOMAIN Value :
            /\ args[1] # Null
            /\ Value[login] \in DOMAIN Get(args[1])
            /\ ~MemberHasErrors(args[1], Value[login])
            /\ login # ""
            /\ LoginOf(args[2], Value[login]) = login
C4_Witness ==
    /\ Called("getMemberAccountIDsForWorkspace")
    /\ ~result.threw
    /\ args[1] # Null
    /\ \E accountID \in DOMAIN Get(args[1]) :
          /\ MemberHasErrors(args[1], accountID)
          /\ LoginOf(args[2], accountID) # ""
          /\ LoginOf(args[2], accountID) \notin DOMAIN Value
    /\ DOMAIN Value # {}

\* C5: the emails getIneligibleInvitees returns are the system-account
\* emails together with the logins of exactly the members that are not
\* pending DELETE, have no errors and have a login in personalDetails.
Range(seq) == {seq[i] : i \in 1..Len(seq)}
SystemAccounts == {"concierge@expensify.com", "chronos@expensify.com"}
MemberPendingDelete(policyMembers, accountID) ==
    /\ Get(policyMembers)[accountID] # Null
    /\ Get(Get(policyMembers)[accountID]).pendingAction = Some("delete")
ExcludedLogins(policyMembers, personalDetails) ==
    IF policyMembers = Null THEN {}
    ELSE {LoginOf(personalDetails, accountID) :
             accountID \in {a \in DOMAIN Get(policyMembers) :
                               /\ ~MemberPendingDelete(policyMembers, a)
                               /\ ~MemberHasErrors(policyMembers, a)
                               /\ LoginOf(personalDetails, a) # ""}}
\* C5: the returned emails are the system accounts and the logins of the members neither pending DELETE nor in error.
C5_IneligibleInvitees ==
    (Called("getIneligibleInvitees") /\ ~result.threw) =>
        /\ Range(Value) = SystemAccounts \cup ExcludedLogins(args[1], args[2])
        /\ SystemAccounts \subseteq Range(Value)
C5_Witness ==
    /\ Called("getIneligibleInvitees")
    /\ ~result.threw
    /\ args[1] # Null
    /\ \E a, b \in DOMAIN Get(args[1]) :
          /\ MemberPendingDelete(args[1], a)
          /\ LoginOf(args[2], a) # ""
          /\ LoginOf(args[2], a) \notin Range(Value)
          /\ LoginOf(args[2], b) \in Range(Value)

\* C6: getActivePolicies returns, in their original order, exactly the
\* entries that have (isPolicyExpenseChatEnabled or areChatRoomsEnabled) and
\* are not pending DELETE; a null input yields the empty list.
Kept(policy) ==
    /\ policy # Null
    /\ Get(policy).isPolicyExpenseChatEnabled \/ Get(policy).areChatRoomsEnabled
    /\ Get(policy).pendingAction # Some("delete")
KeptIndices(policies) == {i \in 1..Len(policies) : Kept(policies[i])}
NthKept(policies, n) ==
    CHOOSE i \in KeptIndices(policies) :
        Cardinality({k \in KeptIndices(policies) : k <= i}) = n
\* C6: the result is the kept entries in their original order, and the empty list for a null input.
C6_ActivePolicies ==
    Called("getActivePolicies") =>
        IF args[1] = Null THEN Value = <<>>
        ELSE /\ Len(Value) = Cardinality(KeptIndices(Get(args[1])))
             /\ \A n \in 1..Len(Value) :
                    Value[n] = Get(args[1])[NthKept(Get(args[1]), n)]
             /\ \A n \in 1..Len(Value) :
                    Get(Value[n]).pendingAction # Some("delete")
C6_Witness ==
    /\ Called("getActivePolicies")
    /\ args[1] # Null
    /\ Len(Get(args[1])) = 2
    /\ Len(Value) = 1
    /\ \E i \in 1..2 :
          LET policy == Get(args[1])[i]
          IN  /\ policy # Null
              /\ Get(policy).isPolicyExpenseChatEnabled
              /\ Get(policy).areChatRoomsEnabled
              /\ Get(policy).pendingAction = Some("delete")

\* C7: hasPolicyError is true whenever the errors mapping of the policy is
\* non-empty, whatever errorFields holds; otherwise it equals
\* hasPolicyErrorFields of the policy.
PolicyHasErrors(policy) == policy # Null /\ HasEntries(Get(policy).errors)
\* C7: hasPolicyError is true when errors is non-empty and equals hasPolicyErrorFields otherwise.
C7_HasPolicyError ==
    Called("hasPolicyError") =>
        IF PolicyHasErrors(args[1]) THEN Value = TRUE
        ELSE Value = hasPolicyErrorFields(args[1])
C7_Witness ==
    /\ Called("hasPolicyError")
    /\ PolicyHasErrors(args[1])
    /\ Get(args[1]).errorFields = Null
    /\ Value = TRUE

\* C8: no function of the library throws: every call returns.
C8_NeverThrows == ~result.threw

\* C9: getTag returns tags[key] when a key is given and the tag under the
\* first key when none is given; it returns the empty mapping when tags is
\* empty or absent, and when the given key is not in the tags (no fallback
\* to the first tag).
StoredUnder(tags, key) == {pair[2] : pair \in {p \in Range(tags) : p[1] = key}}
\* C9: getTag returns the tag under the given key, or under the first key when none is given, and the empty mapping when there is none.
C9_GetTag ==
    Called("getTag") =>
        LET tags == IF args[1] = Null THEN <<>> ELSE Get(args[1])
            key == args[2]
        IN  IF tags = <<>> THEN Value = EmptyObj
            ELSE IF key = Null THEN Value = tags[1][2]
            ELSE IF StoredUnder(tags, Get(key)) = {} THEN Value = EmptyObj
            ELSE {Value} = StoredUnder(tags, Get(key))
C9_Witness ==
    /\ Called("getTag")
    /\ args[1] # Null
    /\ Len(Get(args[1])) = 2
    /\ args[2] # Null
    /\ StoredUnder(Get(args[1]), Get(args[2])) = {}
    /\ Value = EmptyObj

(***************************************************************************)
(* CustomStatusBar: one root instance and nested instances under one       *)
(* CustomStatusBarContext.                                                 *)
(***************************************************************************)
NestedIDs == 1..MaxNested
Routes == {"Home", "Settings", "Profile"}
\* The theme: the routes of PAGE_THEMES have their own colours.
appBG == "appBG"
statusBarStyle == "light-content"
PAGE_THEMES == [name \in {"Home", "Settings"} |->
                   IF name = "Home"
                   THEN [backgroundColor |-> "homeBG", statusBarStyle |-> "dark-content"]
                   ELSE [backgroundColor |-> "settingsBG", statusBarStyle |-> "light-content"]]

\* The context keeps one flag and hands out its setter.
disableRootStatusBar(current, disabled) == disabled

isDisabled(isNested, rootDisabled) == ~isNested /\ rootDisabled

\* What an instance renders.
CustomStatusBar(isNested, rootDisabled) ==
    IF isDisabled(isNested, rootDisabled) THEN "null" ELSE "StatusBar"

\* The 'state' listener of an instance: Null when it returns early, else
\* the colour and style it hands to StatusBar.
updateStatusBarStyle(isNested, rootDisabled, route) ==
    IF isDisabled(isNested, rootDisabled) THEN Null
    ELSE IF route # Null /\ Get(route) \in DOMAIN PAGE_THEMES
         THEN Some(PAGE_THEMES[Get(route)])
         ELSE Some([backgroundColor |-> appBG, statusBarStyle |-> statusBarStyle])

RootOutput(mounted, rootDisabled) ==
    IF mounted THEN CustomStatusBar(FALSE, rootDisabled) ELSE "unmounted"

\* The root mounts: it renders, registers its listener and, unless
\* disabled, sets the bar style of the theme.
MountRoot ==
    /\ ~rootMounted
    /\ rootMounted' = TRUE
    /\ rootOutput' = RootOutput(TRUE, isRootStatusBarDisabled)
    /\ barStyle' = IF isDisabled(FALSE, isRootStatusBarDisabled)
                   THEN barStyle ELSE statusBarStyle
    /\ lastStateSetters' = NoSetters
    /\ UNCHANGED <<nested, isRootStatusBarDisabled, currentRoute, backgroundColor>>
    /\ UNCHANGED libVars

UnmountRoot ==
    /\ rootMounted
    /\ rootMounted' = FALSE
    /\ rootOutput' = RootOutput(FALSE, isRootStatusBarDisabled)
    /\ lastStateSetters' = NoSetters
    /\ UNCHANGED <<nested, isRootStatusBarDisabled, currentRoute, backgroundColor, barStyle>>
    /\ UNCHANGED libVars

\* A nested instance mounts: its effect disables the root, it sets the bar
\* style of the theme, and the root renders again with the new flag.
MountNested(i) ==
    /\ i \notin nested
    /\ nested' = nested \cup {i}
    /\ isRootStatusBarDisabled' = disableRootStatusBar(isRootStatusBarDisabled, TRUE)
    /\ rootOutput' = RootOutput(rootMounted, isRootStatusBarDisabled')
    /\ barStyle' = statusBarStyle
    /\ lastStateSetters' = NoSetters
    /\ UNCHANGED <<rootMounted, currentRoute, backgroundColor>>
    /\ UNCHANGED libVars

\* A nested instance unmounts: the cleanup of its effect enables the root,
\* which renders again and, when it is enabled again, sets the bar style.
UnmountNested(i) ==
    /\ i \in nested
    /\ nested' = nested \ {i}
    /\ isRootStatusBarDisabled' = disableRootStatusBar(isRootStatusBarDisabled, FALSE)
    /\ rootOutput' = RootOutput(rootMounted, isRootStatusBarDisabled')
    /\ barStyle' = IF /\ rootMounted
                      /\ isDisabled(FALSE, isRootStatusBarDisabled)
                      /\ ~isDisabled(FALSE, isRootStatusBarDisabled')
                   THEN statusBarStyle ELSE barStyle
    /\ lastStateSetters' = NoSetters
    /\ UNCHANGED <<rootMounted, currentRoute, backgroundColor>>
    /\ UNCHANGED libVars

\* The navigation container emits 'state': the listener of every mounted
\* instance runs.
NavigationState(route) ==
    LET rootSets == IF rootMounted
                    THEN updateStatusBarStyle(FALSE, isRootStatusBarDisabled, route)
                    ELSE Null
        nestedSets == updateStatusBarStyle(TRUE, isRootStatusBarDisabled, route)
        setters == [root |-> rootSets # Null,
                    nested |-> IF nestedSets # Null THEN nested ELSE {}]
        set == IF rootSets # Null THEN rootSets ELSE nestedSets
        anySet == setters.root \/ setters.nested # {}
    IN  /\ rootMounted \/ nested # {}
        /\ currentRoute' = route
        /\ lastStateSetters' = setters
        /\ backgroundColor' = IF anySet THEN Get(set).backgroundColor
                              ELSE backgroundColor
        /\ barStyle' = IF anySet THEN Get(set).statusBarStyle ELSE barStyle
        /\ UNCHANGED <<rootMounted, nested, isRootStatusBarDisabled, rootOutput>>
        /\ UNCHANGED libVars

NextStatusBar ==
    \/ MountRoot
    \/ UnmountRoot
    \/ \E i \in NestedIDs : MountNested(i)
    \/ \E i \in NestedIDs : UnmountNested(i)
    \/ \E route \in OptOf(Routes) : NavigationState(route)

SpecStatusBar == Init /\ [][NextStatusBar]_vars

====
